---- MODULE Spec2Model ----
(***************************************************************************)
(* Model of bsread's Sender (src/bsread/sender.py) and of the receive-side *)
(* pulse ID consistency check (src/bsread/stats.py).                       *)
(***************************************************************************)
EXTENDS Integers, Sequences, FiniteSets, TLC

None == "None"

(***************************************************************************)
(* Bounds of the model.                                                    *)
(***************************************************************************)
MaxPulse == 9        \* largest pulse ID a message carries
MaxFeed == 6         \* messages handed to data_consistency_check

MaxStart == 1        \* largest start_pulse_id a Sender is constructed with
MaxCounter == 2      \* send is not called once the pulse counter reached this
MaxArgs == 2         \* longest positional value sequence passed to send
MaxPending == 2      \* send is not called with more frames than this pending

PulseIds == 0..MaxPulse
StatIds == {1, 2}    \* Statistics objects alive in the process
Threads == {1, 2}    \* application threads using the Sender
Names == {"a", "b"}  \* channel names
Values == {None, "x"}            \* channel values: absent, or a number
NoPulse == -1                    \* stands for pulse_id = None
NoThread == 0                    \* stands for an unlocked Lock
NoCount == -9                    \* stands for n_messages = None

VARIABLES
    previous_pulse_id,   \* stats.py:14, module-level global
    statistics,          \* Statistics objects: id -> counters
    message_data,        \* pulse_id of the message checked last (None: none yet)
    checked_with,        \* Statistics object the last check was given
    branch,              \* branch data_consistency_check took last
    received,            \* number of messages checked since process start
    matched              \* how many leading messages equal SampleFeed (-1: diverged)

chkvars == <<previous_pulse_id, statistics, message_data, checked_with, branch,
             received, matched>>

VARIABLES
    data_header_compression, data_compression, start_pulse_id,   \* constructor arguments
    channels,            \* self.channels: the OrderedDict, as a sequence of Channels
    data_header,         \* self.data_header
    data_header_bytes,   \* self.data_header_bytes
    main_header,         \* self.main_header
    pulse_id,            \* self.pulse_id
    status_stream_open,  \* self.status_stream_open
    channels_lock,       \* holder of self.channels_lock
    stream,              \* self.stream: None, "connected" or "disconnected"
    unit,                \* frames of the multipart unit the stream holds open
    th,                  \* per thread: position in the running call and its locals
    ret                  \* per thread: how its last call ended

cfgvars == <<data_header_compression, data_compression, start_pulse_id>>
hdrvars == <<data_header, data_header_bytes, main_header>>
netvars == <<stream, unit>>
sndvars == <<cfgvars, channels, hdrvars, pulse_id, status_stream_open,
             channels_lock, netvars, th, ret>>

vars == <<chkvars, sndvars>>

(***************************************************************************)
(* stats.py                                                                *)
(***************************************************************************)
Statistics == [missed_pulse_ids |-> 0, duplicated_pulse_ids |-> 0, reverted_pulse_ids |-> 0]

\* The pulse ID sequence of the worked example.
SampleFeed == <<5, 6, 7, 7, 9, 8>>

\* Faulty variant, kept for comparison:
\* every message that is not the first is taken as a normal advance.
ClassifyNoGap(prev, cur) ==
    IF prev = 0 THEN "first" ELSE "normal"

\* The if/elif chain of data_consistency_check; `not previous_pulse_id'
\* is true exactly for 0.
Classify(prev, cur) ==
    IF prev = 0 THEN "first"
    ELSE IF prev + 1 # cur
         THEN IF cur = prev THEN "duplicated"
              ELSE IF cur > prev THEN "missed"
              ELSE "reverted"
         ELSE "normal"

ChkInit ==
    /\ previous_pulse_id = 0
    /\ statistics = [s \in StatIds |-> Statistics]
    /\ message_data = None
    /\ checked_with = None
    /\ branch = None
    /\ received = 0
    /\ matched = 0

data_consistency_check(p, s) ==
    LET b == Classify(previous_pulse_id, p)
        st == statistics[s]
    IN  /\ received < MaxFeed
        /\ previous_pulse_id' =
              IF b \in {"first", "missed", "normal"} THEN p ELSE previous_pulse_id
        /\ statistics' = [statistics EXCEPT ![s] =
              CASE b = "duplicated" ->
                      [st EXCEPT !.duplicated_pulse_ids = @ + 1]
                [] b = "missed" ->
                      [st EXCEPT !.missed_pulse_ids = @ + p - previous_pulse_id - 1]
                [] b = "reverted" ->
                      [st EXCEPT !.reverted_pulse_ids = @ + 1]
                [] OTHER -> st]
        /\ message_data' = p
        /\ checked_with' = s
        /\ branch' = b
        /\ received' = received + 1
        /\ matched' = IF /\ matched >= 0
                         /\ matched < Len(SampleFeed)
                         /\ s = 1
                         /\ SampleFeed[matched + 1] = p
                      THEN matched + 1 ELSE -1
        /\ UNCHANGED sndvars

\* main() of stats.py creates a Statistics object; the global is untouched.
NewStatistics(s) ==
    /\ statistics[s] # Statistics
    /\ statistics' = [statistics EXCEPT ![s] = Statistics]
    /\ matched' = -1
    /\ UNCHANGED <<previous_pulse_id, message_data, checked_with, branch, received>>
    /\ UNCHANGED sndvars

(***************************************************************************)
(* sender.py: data                                                         *)
(***************************************************************************)
\* bsread.data.serialization.compression_provider_mapping: the names a
\* compression provider exists for; None is the identity transform.
compression_provider_mapping == {None, "lz4"}

\* Every compression name an application passes, known or not.
CompressionNames == compression_provider_mapping \cup {"bogus"}

\* bsread.data.helpers.get_channel_specs: the type inferred from a value;
\* the values of the model are absent or a float.
get_channel_specs == "float64"

\* Channel.__init__; metadata holds name, type and compression (None: key
\* absent).  The encoding is sys.byteorder for every channel and left out.
Channel(function, metadata) == [function |-> function, metadata |-> metadata]

NameList(chs) == [i \in 1..Len(chs) |-> chs[i].metadata.name]

IndexOf(chs, name) == CHOOSE i \in 1..Len(chs) : chs[i].metadata.name = name

HasName(chs, name) == \E i \in 1..Len(chs) : chs[i].metadata.name = name

\* OrderedDict.__setitem__: a known key keeps its position, a new one is
\* appended.
SetItem(chs, ch) ==
    IF HasName(chs, ch.metadata.name)
    THEN [chs EXCEPT ![IndexOf(chs, ch.metadata.name)] = ch]
    ELSE Append(chs, ch)

\* The channel add_channel_from_value stores for name.
ChannelFromValue(name) ==
    Channel(None, [name |-> name,
                   type |-> get_channel_specs,
                   compression |-> data_compression])

\* The channel add_channel stores; md.compression = None: no such key.
ChannelFromMetadata(name, function, md) ==
    Channel(function, [name |-> name,
                       type |-> None,
                       compression |-> IF md.compression = None
                                          /\ data_compression # None
                                       THEN data_compression
                                       ELSE md.compression])

\* get_value_bytes(json.dumps(header), compression): the bytes are a function
\* of the JSON text and the compression applied to it.
HeaderBytes(header) ==
    [json |-> header, compression |-> data_header_compression]

NoHeader == [htype |-> None, channels |-> <<>>]
NoBytes == [json |-> NoHeader, compression |-> None]

\* hashlib.md5(bytes).hexdigest(): equal digests only for equal bytes.
md5(bytes) == [md5 |-> bytes]

\* No hash key in the main header; the bytes None are never hashed.
NoHash == [md5 |-> NoBytes]
NoMainHeader == [htype |-> None, dh_compression |-> None, hash |-> NoHash,
                 pulse_id |-> NoPulse]

DataHeaderOf(chs) ==
    [htype |-> "bsr_d-1.1", channels |-> [i \in 1..Len(chs) |-> chs[i].metadata]]

\* Faulty variant, kept for comparison:
\* the data header is rebuilt and the hash in the main header is left.
_create_data_header_stale_hash(chs) ==
    /\ data_header' = DataHeaderOf(chs)
    /\ data_header_bytes' = HeaderBytes(DataHeaderOf(chs))
    /\ main_header' = main_header

\* Sender._create_data_header over the registry chs.  With no main header
\* (Sender never opened) line 135 raises after the data header was stored.
_create_data_header(chs) ==
    /\ data_header' = DataHeaderOf(chs)
    /\ data_header_bytes' = HeaderBytes(DataHeaderOf(chs))
    /\ main_header' = IF main_header = NoMainHeader THEN main_header
                      ELSE [main_header EXCEPT !.hash = md5(HeaderBytes(DataHeaderOf(chs)))]

(***************************************************************************)
(* sender.py: calls and their locals                                       *)
(***************************************************************************)
\* Arguments of send: the number of positional values (0: list_data is
\* None), the names of the named values in the mapping's order (<<>>:
\* dict_data is empty), check_data and the pulse_id override.  The values
\* themselves are drawn where the loop reads them (each is read once).
NoArgs == [list_len |-> 0, dict_names |-> <<>>, check_data |-> TRUE, pulse_id |-> NoPulse]

\* The Sender as a call finds it.
NoSnapshot == [pulse_id |-> NoPulse, channels |-> <<>>, data_header |-> NoHeader,
               data_header_bytes |-> NoBytes, main_header |-> NoMainHeader,
               stream |-> None]

Snapshot == [pulse_id |-> pulse_id, channels |-> channels, data_header |-> data_header,
             data_header_bytes |-> data_header_bytes, main_header |-> main_header,
             stream |-> stream]

\* The locals of a thread that is in no call.  generating: the thread is
\* inside generate_stream, called with n_arg, its n_messages being the
\* number of messages still to send.
Idle == [pc |-> "idle", args |-> NoArgs, count |-> 0, counter |-> 0,
         it_current |-> None, it_size |-> 0, out |-> <<>>, before |-> NoSnapshot,
         generating |-> FALSE, n_arg |-> 0, n_messages |-> 0]

\* The locals of thread t when a call made by the application, or by
\* generate_stream on its behalf, has returned; pc is where generate_stream
\* goes on.
AfterCall(t, pc) ==
    IF th[t].generating
    THEN [Idle EXCEPT !.pc = pc, !.generating = TRUE, !.n_arg = th[t].n_arg,
                      !.n_messages = th[t].n_messages]
    ELSE Idle

\* ret[t] tells how the last call of thread t ended when that call was a
\* send: outcome "ok", "error" (it raised before the pulse counter was
\* incremented) or "post_error" (the post-send hook raised).
NoReturn == [outcome |-> None, args |-> NoArgs, out |-> <<>>, before |-> NoSnapshot]

Return(t, outcome) ==
    [outcome |-> outcome, args |-> th[t].args, out |-> th[t].out,
     before |-> th[t].before]

\* Sender.__init__: both compression names are checked (lines 74-80); a
\* Sender exists only when neither check raised.
SenderInit(dhc, dc, start) ==
    /\ dhc \in compression_provider_mapping
    /\ dc \in compression_provider_mapping
    /\ data_header_compression = dhc
    /\ data_compression = dc
    /\ start_pulse_id = start
    /\ stream = None
    /\ unit = 0
    /\ pulse_id = NoPulse
    /\ channels = <<>>
    /\ data_header = NoHeader
    /\ data_header_bytes = NoBytes
    /\ main_header = NoMainHeader
    /\ channels_lock = NoThread
    /\ status_stream_open = FALSE
    /\ th = [t \in Threads |-> Idle]
    /\ ret = [t \in Threads |-> NoReturn]

\* Sender.add_channel.  md.isdict = FALSE: metadata is a true value that is
\* no dict (line 92 raises); md.compression = None: no compression key.
add_channel(t, name, function, md) ==
    /\ th[t].pc = "idle"
    /\ IF ~md.isdict
       THEN UNCHANGED <<channels, hdrvars>>
       ELSE /\ channels_lock = NoThread
            /\ channels' = SetItem(channels, ChannelFromMetadata(name, function, md))
            /\ IF status_stream_open
               THEN _create_data_header(channels')
               ELSE UNCHANGED hdrvars
    /\ ret' = [ret EXCEPT ![t] = NoReturn]
    /\ UNCHANGED <<chkvars, cfgvars, pulse_id, status_stream_open, channels_lock,
                   netvars, th>>

\* Sender.add_channel_from_value: no lock taken, no header rebuilt.
add_channel_from_value(t, name) ==
    /\ th[t].pc = "idle"
    /\ channels' = SetItem(channels, ChannelFromValue(name))
    /\ ret' = [ret EXCEPT ![t] = NoReturn]
    /\ UNCHANGED <<chkvars, cfgvars, hdrvars, pulse_id, status_stream_open,
                   channels_lock, netvars, th>>

\* Lines 109-117 run by thread t whose locals are l: a new stream and a new
\* main header.
OpenStream(t, l) ==
    /\ stream' = "connected"
    /\ unit' = 0
    /\ main_header' = [htype |-> "bsr_m-1.1", dh_compression |-> data_header_compression,
                       hash |-> NoHash, pulse_id |-> NoPulse]
    /\ th' = [th EXCEPT ![t] = [l EXCEPT !.pc = "open_header", !.before = Snapshot]]
    /\ ret' = [ret EXCEPT ![t] = NoReturn]
    /\ UNCHANGED <<chkvars, cfgvars, channels, data_header, data_header_bytes, pulse_id,
                   status_stream_open, channels_lock>>

\* Sender.open, called by the application.
open(t) ==
    /\ th[t].pc = "idle"
    /\ OpenStream(t, Idle)

\* Sender.open, lines 120-121: the data header, built under the lock.
open_header(t) ==
    /\ th[t].pc = "open_header"
    /\ channels_lock = NoThread
    /\ _create_data_header(channels)
    /\ th' = [th EXCEPT ![t].pc = "open_status"]
    /\ UNCHANGED <<chkvars, cfgvars, channels, pulse_id, status_stream_open,
                   channels_lock, netvars, ret>>

\* Faulty variant, kept for comparison:
\* open leaves the pulse counter of a Sender that has one.
open_status_keeps_pulse(t) ==
    /\ th[t].pc = "open_status"
    /\ pulse_id' = IF pulse_id = NoPulse THEN start_pulse_id ELSE pulse_id
    /\ status_stream_open' = TRUE
    /\ th' = [th EXCEPT ![t] = AfterCall(t, "gen_loop")]
    /\ UNCHANGED <<chkvars, cfgvars, channels, hdrvars, channels_lock, netvars, ret>>

\* Sender.open, lines 124-127.
open_status(t) ==
    /\ th[t].pc = "open_status"
    /\ pulse_id' = start_pulse_id
    /\ status_stream_open' = TRUE
    /\ th' = [th EXCEPT ![t] = AfterCall(t, "gen_loop")]
    /\ UNCHANGED <<chkvars, cfgvars, channels, hdrvars, channels_lock, netvars, ret>>

\* Sender.close; with no stream, or a stream disconnected before, line 138
\* raises.
close(t) ==
    /\ th[t].pc = "idle"
    /\ IF stream = "connected"
       THEN /\ stream' = "disconnected"
            /\ unit' = 0
            /\ status_stream_open' = FALSE
       ELSE UNCHANGED <<netvars, status_stream_open>>
    /\ ret' = [ret EXCEPT ![t] = NoReturn]
    /\ UNCHANGED <<chkvars, cfgvars, channels, hdrvars, pulse_id, channels_lock,
                   th>>

(***************************************************************************)
(* sender.py: send                                                         *)
(***************************************************************************)
Frame(kind, ch, empty, more) ==
    [kind |-> kind, ch |-> ch, empty |-> empty, more |-> more,
     main |-> NoMainHeader, bytes |-> NoBytes, value |-> None,
     type |-> None, compression |-> None]

\* Line 214: the main header as JSON, more frames follow.
MainFrame(mh) == [Frame("main", None, FALSE, TRUE) EXCEPT !.main = mh]

\* Line 216: the data header bytes, more frames follow.
DataFrame(bytes) == [Frame("data", None, FALSE, TRUE) EXCEPT !.bytes = bytes]

\* Faulty variant, kept for comparison:
\* a channel without a value contributes no frames.
ChannelFramesSkipAbsent(channel, value, count) ==
    IF value = None THEN <<>>
    ELSE << [Frame("value", channel.metadata.name, FALSE, TRUE) EXCEPT
                !.value = value,
                !.type = channel.metadata.type,
                !.compression = channel.metadata.compression],
            Frame("timestamp", channel.metadata.name, FALSE, count > 0) >>

\* Lines 228-242: the value frame and the timestamp frame of one channel;
\* both are b'' for the value None.  count is the number of channels left.
ChannelFrames(channel, value, count) ==
    LET name == channel.metadata.name
    IN  << [Frame("value", name, value = None, TRUE) EXCEPT
                !.value = value,
                !.type = IF value = None THEN None ELSE channel.metadata.type,
                !.compression = IF value = None THEN None
                                ELSE channel.metadata.compression],
           Frame("timestamp", name, value = None, count > 0) >>

\* stream.send(frame, send_more, block): the frames are handed to the
\* stream in order.  A frame sent with send_more joins the multipart unit
\* the stream holds open, a frame sent without it closes that unit, which
\* then goes to the receivers.
StreamSend(frames) ==
    /\ stream' = stream
    /\ unit' = IF frames = <<>> THEN unit
               ELSE IF frames[Len(frames)].more THEN unit + Len(frames)
               ELSE 0

\* Faulty variant, kept for comparison:
\* the override is not stored in the pulse counter.
EnterPulseKeepsCounter(current, override) == current

\* The pulse counter after lines 176-177.
EnterPulse(current, override) ==
    IF override # NoPulse THEN override ELSE current

\* An exception leaves send: the `with' block releases the lock.
Raise(t, out) ==
    /\ th' = [th EXCEPT ![t] = Idle]
    /\ ret' = [ret EXCEPT ![t] = [Return(t, "error") EXCEPT !.out = out]]
    /\ channels_lock' = IF channels_lock = t THEN NoThread ELSE channels_lock

\* send, lines 160-177: the arguments are taken apart and a pulse_id
\* override is stored in the pulse counter, before the lock is taken.  The
\* call is the application's, or the self.send() of line 266.
send(t, args) ==
    /\ \/ th[t].pc = "idle"
       \/ th[t].pc = "gen_loop" /\ th[t].n_messages # 0 /\ args = NoArgs
    /\ EnterPulse(pulse_id, args.pulse_id) < MaxCounter
    /\ unit <= MaxPending
    /\ pulse_id' = EnterPulse(pulse_id, args.pulse_id)
    /\ th' = [th EXCEPT ![t] = [th[t] EXCEPT !.pc = "lock", !.args = args,
                                             !.before = Snapshot]]
    /\ ret' = [ret EXCEPT ![t] = NoReturn]
    /\ UNCHANGED <<chkvars, cfgvars, channels, hdrvars, status_stream_open, channels_lock, netvars>>

\* Line 180: the lock is taken.
send_lock(t) ==
    /\ th[t].pc = "lock"
    /\ channels_lock = NoThread
    /\ channels_lock' = t
    /\ th' = [th EXCEPT ![t].pc = "check"]
    /\ UNCHANGED <<chkvars, cfgvars, channels, hdrvars, pulse_id, status_stream_open,
                   netvars, ret>>

\* Lines 187-190: a new registry made of the named values, in their order.
RECURSIVE FromDict(_, _)
FromDict(chs, names) ==
    IF names = <<>> THEN chs
    ELSE FromDict(SetItem(chs, ChannelFromValue(Head(names))), Tail(names))

\* Lines 200-201: every channel, in order, replaced by one made of the
\* positional value at its index.
FromList(chs) ==
    [i \in 1..Len(chs) |-> ChannelFromValue(chs[i].metadata.name)]

\* Faulty variant, kept for comparison:
\* only a sequence that is too short is refused.
LengthTooShort(list_len, chs) == list_len < Len(chs)

\* Line 195.
LengthMismatch(list_len, chs) == list_len # Len(chs)

\* Lines 182-203: with check_data, explicit values rebuild the registry and
\* the data header.
send_check(t) ==
    LET a == th[t].args IN
    /\ th[t].pc = "check"
    /\ IF a.check_data /\ a.dict_names # <<>>
       THEN /\ channels' = FromDict(<<>>, a.dict_names)
            /\ _create_data_header(channels')
            /\ IF main_header = NoMainHeader
               THEN Raise(t, <<>>)
               ELSE /\ th' = [th EXCEPT ![t].pc = "pre"]
                    /\ UNCHANGED <<ret, channels_lock>>
       ELSE IF a.check_data /\ a.list_len > 0
       THEN IF LengthMismatch(a.list_len, channels)
            THEN /\ Raise(t, <<>>)
                 /\ UNCHANGED <<channels, hdrvars>>
            ELSE /\ channels' = FromList(channels)
                 /\ _create_data_header(channels')
                 /\ IF main_header = NoMainHeader
                    THEN Raise(t, <<>>)
                    ELSE /\ th' = [th EXCEPT ![t].pc = "pre"]
                         /\ UNCHANGED <<ret, channels_lock>>
       ELSE /\ th' = [th EXCEPT ![t].pc = "pre"]
            /\ UNCHANGED <<channels, hdrvars, ret, channels_lock>>
    /\ UNCHANGED <<chkvars, cfgvars, pulse_id, status_stream_open, netvars>>

\* What calling self.pre_function / self.post_function does.  The two
\* attributes are what the application assigned when send reads them: no
\* hook (nothing is called, as if it returned), or a callback.
HookOutcomes == {"return", "raise", "add_channel"}

\* Lines 205-210: the pre-send hook, then pulse_id goes into the main
\* header.  A hook returns, raises, or calls add_channel, which waits at
\* line 101 for the lock this thread holds: threading.Lock is not
\* reentrant, so a thread at "hook_lock" has no further step.
send_pre(t) ==
    /\ th[t].pc = "pre"
    /\ \E hook \in HookOutcomes :
         CASE hook = "raise" ->
                 /\ Raise(t, <<>>)
                 /\ UNCHANGED main_header
           [] hook = "add_channel" ->
                 /\ th' = [th EXCEPT ![t].pc = "hook_lock"]
                 /\ UNCHANGED <<main_header, ret, channels_lock>>
           [] OTHER ->
                 IF main_header = NoMainHeader
                 THEN /\ Raise(t, <<>>)
                      /\ UNCHANGED main_header
                 ELSE /\ main_header' = [main_header EXCEPT !.pulse_id = pulse_id]
                      /\ th' = [th EXCEPT ![t].pc = "main"]
                      /\ UNCHANGED <<ret, channels_lock>>
    /\ UNCHANGED <<chkvars, cfgvars, channels, data_header, data_header_bytes, pulse_id,
                   status_stream_open, netvars>>

\* Line 214.  A send on the stream fails (timeout, queue full, stream
\* disconnected) or hands the frame over.
send_main_header(t) ==
    /\ th[t].pc = "main"
    /\ \/ /\ stream = "connected"
          /\ StreamSend(<<MainFrame(main_header)>>)
          /\ th' = [th EXCEPT ![t].pc = "data",
                               ![t].out = Append(@, MainFrame(main_header))]
          /\ UNCHANGED <<ret, channels_lock>>
       \/ /\ Raise(t, th[t].out)
          /\ UNCHANGED netvars
    /\ UNCHANGED <<chkvars, cfgvars, channels, hdrvars, pulse_id, status_stream_open>>

\* The OrderedDict iterator keeps the key it yields next.
FirstKey(chs) == IF chs = <<>> THEN None ELSE chs[1].metadata.name

NextKey(chs, name) ==
    IF IndexOf(chs, name) = Len(chs) THEN None
    ELSE chs[IndexOf(chs, name) + 1].metadata.name

\* Lines 216-220: the data header frame, then the loop over the registry
\* is set up.  With data_header_bytes still None the stream refuses it.
send_data_header(t) ==
    /\ th[t].pc = "data"
    /\ \/ /\ stream = "connected"
          /\ data_header_bytes # NoBytes
          /\ StreamSend(<<DataFrame(data_header_bytes)>>)
          /\ th' = [th EXCEPT ![t].pc = "loop",
                               ![t].out = Append(@, DataFrame(data_header_bytes)),
                               ![t].counter = 0,
                               ![t].count = Len(channels) - 1,
                               ![t].it_current = FirstKey(channels),
                               ![t].it_size = Len(channels)]
          /\ UNCHANGED <<ret, channels_lock>>
       \/ /\ Raise(t, th[t].out)
          /\ UNCHANGED netvars
    /\ UNCHANGED <<chkvars, cfgvars, channels, hdrvars, pulse_id, status_stream_open>>

DictHas(names, name) == \E i \in 1..Len(names) : names[i] = name

\* Lines 221-226: where the value of the channel comes from; "raise" when
\* the lookup or the call raises.  A registered function returns a value,
\* returns None or raises.
ValueSources(a, channel, counter) ==
    IF a.dict_names # <<>>
    THEN IF DictHas(a.dict_names, channel.metadata.name) THEN Values ELSE {"raise"}
    ELSE IF a.list_len > 0
    THEN IF counter + 1 <= a.list_len THEN Values ELSE {"raise"}
    ELSE IF channel.function = None THEN {"raise"}
    ELSE Values \cup {"raise"}

\* get_value_bytes(value, compression, ...) looks the provider up.
EncodeRaises(channel, value) ==
    value # None /\ channel.metadata.compression \notin compression_provider_mapping

\* Lines 220-244: one turn of the loop.  The iterator raises when the
\* registry changed size since the loop began.
send_channel(t) ==
    LET l == th[t] IN
    /\ l.pc = "loop"
    /\ l.it_current # None
    /\ IF Len(channels) # l.it_size
       THEN /\ Raise(t, l.out)
            /\ UNCHANGED netvars
       ELSE LET channel == channels[IndexOf(channels, l.it_current)] IN
            \E value \in ValueSources(l.args, channel, l.counter) :
               IF value = "raise" \/ EncodeRaises(channel, value)
               THEN /\ Raise(t, l.out)
                    /\ UNCHANGED netvars
               ELSE LET frames == ChannelFrames(channel, value, l.count) IN
                    \/ /\ stream = "connected"
                       /\ StreamSend(frames)
                       /\ th' = [th EXCEPT ![t].out = l.out \o frames,
                                            ![t].count = l.count - 1,
                                            ![t].counter = l.counter + 1,
                                            ![t].it_current = NextKey(channels, l.it_current)]
                       /\ UNCHANGED <<ret, channels_lock>>
                    \/ \E k \in 0..(Len(frames) - 1) :
                          /\ k > 0 => stream = "connected"
                          /\ StreamSend(SubSeq(frames, 1, k))
                          /\ Raise(t, l.out \o SubSeq(frames, 1, k))
    /\ UNCHANGED <<chkvars, cfgvars, channels, hdrvars, pulse_id, status_stream_open>>

\* The loop is over and the `with' block left: the lock is released.
send_unlock(t) ==
    /\ th[t].pc = "loop"
    /\ th[t].it_current = None
    /\ channels_lock' = NoThread
    /\ th' = [th EXCEPT ![t].pc = "increment"]
    /\ UNCHANGED <<chkvars, cfgvars, channels, hdrvars, pulse_id, status_stream_open,
                   netvars, ret>>

\* Lines 246-250: the pulse counter is incremented, then the post-send
\* hook runs; what it raises leaves send.
send_increment(t) ==
    /\ th[t].pc = "increment"
    /\ IF pulse_id = NoPulse
       THEN /\ UNCHANGED pulse_id
            /\ ret' = [ret EXCEPT ![t] = Return(t, "error")]
            /\ th' = [th EXCEPT ![t] = Idle]
       ELSE /\ pulse_id' = pulse_id + 1
            /\ \E hook \in HookOutcomes \ {"add_channel"} :
                  IF hook = "raise"
                  THEN /\ ret' = [ret EXCEPT ![t] = Return(t, "post_error")]
                       /\ th' = [th EXCEPT ![t] = Idle]
                  ELSE /\ ret' = [ret EXCEPT ![t] = Return(t, "ok")]
                       /\ th' = [th EXCEPT ![t] = AfterCall(t, "gen_sleep")]
    /\ UNCHANGED <<chkvars, cfgvars, channels, hdrvars, status_stream_open, channels_lock, netvars>>

(***************************************************************************)
(* sender.py: generate_stream                                              *)
(***************************************************************************)
\* Lines 259-263: generate_stream calls open; `not n_messages' is true for
\* None and for 0, and both become -1.  n_messages is local, so the model
\* settles it with the call.
generate_stream(t, n) ==
    /\ th[t].pc = "idle"
    /\ OpenStream(t, [Idle EXCEPT !.generating = TRUE,
                                  !.n_arg = n,
                                  !.n_messages = IF n = NoCount \/ n = 0 THEN -1 ELSE n])

\* Lines 267-269, after self.send() returned: sleep, then count down.  A
\* negative n_messages only gets more negative and is never 0: the model
\* leaves it at its value.
generate_stream_sleep(t) ==
    /\ th[t].pc = "gen_sleep"
    /\ th' = [th EXCEPT ![t].pc = "gen_loop",
                        ![t].n_messages = IF @ > 0 THEN @ - 1 ELSE @]
    /\ UNCHANGED <<chkvars, cfgvars, channels, hdrvars, pulse_id, status_stream_open,
                   channels_lock, netvars, ret>>

\* Line 265 with n_messages = 0: the loop ends and generate_stream returns.
generate_stream_return(t) ==
    /\ th[t].pc = "gen_loop"
    /\ th[t].n_messages = 0
    /\ th' = [th EXCEPT ![t] = Idle]
    /\ ret' = [ret EXCEPT ![t] = [NoReturn EXCEPT !.outcome = "returned"]]
    /\ UNCHANGED <<chkvars, cfgvars, channels, hdrvars, pulse_id, status_stream_open,
                   channels_lock, netvars>>

\* The external interrupt: KeyboardInterrupt is raised in the thread that
\* runs generate_stream, wherever it is.  Lines 252-269 have no handler:
\* the exception leaves generate_stream (a `with' block it passes releases
\* the lock) and nothing else is done.
interrupt(t) ==
    /\ th[t].generating
    /\ th' = [th EXCEPT ![t] = Idle]
    /\ ret' = [ret EXCEPT ![t] = Return(t, "interrupted")]
    /\ channels_lock' = IF channels_lock = t THEN NoThread ELSE channels_lock
    /\ UNCHANGED <<chkvars, cfgvars, channels, hdrvars, pulse_id, status_stream_open,
                   netvars>>

ChkNext ==
    \/ \E p \in PulseIds, s \in StatIds : data_consistency_check(p, s)
    \/ \E s \in StatIds : NewStatistics(s)

\* The checker beside a Sender that is constructed and never used.
ChkOnlyInit == ChkInit /\ SenderInit(None, None, 0)

SpecChk == ChkOnlyInit /\ [][ChkNext]_vars

(***************************************************************************)
(* Claims about the consistency check (checked under SpecChk).             *)
(***************************************************************************)
\* A step of data_consistency_check, seen from outside.
IsCheckStep == received' = received + 1

StatsOthersUnchanged ==
    \A s \in StatIds \ {checked_with'} : statistics'[s] = statistics[s]

\* C6 (as stated): feeding [5,6,7,7,9,8] to a fresh checker yields
\* duplicated = 1, missed = 1, reverted = 1 and final adopted state 7.
C6_SampleEndsAt7 ==
    matched = Len(SampleFeed) =>
        /\ statistics[1].duplicated_pulse_ids = 1
        /\ statistics[1].missed_pulse_ids = 1
        /\ statistics[1].reverted_pulse_ids = 1
        /\ previous_pulse_id = 7

\* C6 (amended): feeding [5,6,7,7,9,8] to a fresh checker yields
\* duplicated = 1, missed = 1, reverted = 1 and final adopted state 9
\* (the gap 7 -> 9 adopts 9, the reverted 8 does not replace it).
C6_SampleEndsAt9 ==
    matched = Len(SampleFeed) =>
        /\ statistics[1].duplicated_pulse_ids = 1
        /\ statistics[1].missed_pulse_ids = 1
        /\ statistics[1].reverted_pulse_ids = 1
        /\ previous_pulse_id = 9

C6_Witness ==
    /\ matched = Len(SampleFeed)
    /\ received = Len(SampleFeed)
    /\ message_data = 8
    /\ branch = "reverted"

\* C7: once a pulse ID was adopted (last), a received p <= last leaves the
\* adopted state at last and changes exactly one counter by exactly 1:
\* duplicated when p = last, reverted when p < last; missed is unchanged.
C7_DuplicateOrReverted ==
    [][(IsCheckStep /\ received >= 1 /\ message_data' <= previous_pulse_id) =>
         LET old == statistics[checked_with']
             new == statistics'[checked_with']
             p == message_data'
         IN  /\ previous_pulse_id' = previous_pulse_id
             /\ new.missed_pulse_ids = old.missed_pulse_ids
             /\ new.duplicated_pulse_ids =
                    old.duplicated_pulse_ids + (IF p = previous_pulse_id THEN 1 ELSE 0)
             /\ new.reverted_pulse_ids =
                    old.reverted_pulse_ids + (IF p < previous_pulse_id THEN 1 ELSE 0)
             /\ StatsOthersUnchanged]_vars

\* C8: once a pulse ID was adopted (last), a received p > last is adopted
\* and adds exactly p - last - 1 to missed; duplicated and reverted are
\* unchanged.
C8_AdvanceCountsGap ==
    [][(IsCheckStep /\ received >= 1 /\ message_data' > previous_pulse_id) =>
         LET old == statistics[checked_with']
             new == statistics'[checked_with']
             p == message_data'
         IN  /\ previous_pulse_id' = p
             /\ new.missed_pulse_ids = old.missed_pulse_ids + p - previous_pulse_id - 1
             /\ new.duplicated_pulse_ids = old.duplicated_pulse_ids
             /\ new.reverted_pulse_ids = old.reverted_pulse_ids
             /\ StatsOthersUnchanged]_vars

\* C9: the checker is unset only before the first message: the first
\* pulse ID (0 included) is adopted with no counter changed, and no later
\* message is treated as a first message again.
C9_UnsetOnlyBeforeFirst ==
    [][IsCheckStep =>
         IF received = 0
         THEN /\ previous_pulse_id' = message_data'
              /\ statistics' = statistics
         ELSE branch' # "first"]_vars

\* C19: the counters of a Statistics object depend only on the pulse IDs
\* checked against that object: when the second message of the process is
\* the first one checked against its object (the first message went to the
\* other stream's object), it is adopted as a first message and the
\* object's counters stay as those of a fresh object.
C19_CountersOfOwnStreamOnly ==
    [][(IsCheckStep /\ received = 1 /\ checked_with' # checked_with) =>
         statistics'[checked_with'] = Statistics]_vars

(***************************************************************************)
(* The Sender driven by one thread (SpecSeq) and by two (SpecConc).        *)
(***************************************************************************)
Functions == {None, "function"}

MetadataArgs ==
    {[isdict |-> FALSE, compression |-> None]} \cup
    {[isdict |-> TRUE, compression |-> c] : c \in CompressionNames}

\* The named values of a send over the names N, in the mapping's order.
DictArgs(N) ==
    {<<>>} \cup {<<n>> : n \in N} \cup {q \in N \X N : q[1] # q[2]}

\* The arguments of send: positional values, named values, none, or one of
\* each; O are the pulse_id overrides.
SendArgs(N, O) ==
    {a \in [list_len : 0..MaxArgs, dict_names : DictArgs(N), check_data : BOOLEAN,
            pulse_id : O] :
        \/ a.list_len = 0
        \/ a.dict_names = <<>>
        \/ a.list_len = 1 /\ Len(a.dict_names) = 1}

Overrides == {NoPulse} \cup 0..(MaxCounter - 1)

\* The calls of the threads: those in T open, close and send, those in R
\* register channels; channel names N, send arguments A, channel functions
\* F and metadata arguments M.
SenderNext(T, R, N, A, F, M) ==
    \/ \E t \in R, name \in N, function \in F, md \in M :
          add_channel(t, name, function, md)
    \/ \E t \in R, name \in N : add_channel_from_value(t, name)
    \/ \E t \in T : open(t)
    \/ \E t \in T : open_header(t)
    \/ \E t \in T : open_status(t)
    \/ \E t \in T : close(t)
    \/ \E t \in T, args \in A : send(t, args)
    \/ \E t \in T : send_lock(t)
    \/ \E t \in T : send_check(t)
    \/ \E t \in T : send_pre(t)
    \/ \E t \in T : send_main_header(t)
    \/ \E t \in T : send_data_header(t)
    \/ \E t \in T : send_channel(t)
    \/ \E t \in T : send_unlock(t)
    \/ \E t \in T : send_increment(t)

NoCompression == {md \in MetadataArgs : md.compression = None}

\* SpecSeq: one thread; a Sender without compression starting at pulse 0,
\* two channel names, every shape of send arguments, no pulse_id override.
SeqInit == ChkInit /\ SenderInit(None, None, 0)

SeqNext ==
    SenderNext({1}, {1}, Names, SendArgs(Names, {NoPulse}), {"function"}, NoCompression)

SpecSeq == SeqInit /\ [][SeqNext]_vars

\* SpecPulse: one thread; every start_pulse_id and pulse_id override, one
\* channel name.
PulseInit == ChkInit /\ \E start \in 0..MaxStart : SenderInit(None, None, start)

PulseNext ==
    SenderNext({1}, {1}, {"a"}, SendArgs({"a"}, Overrides), {"function"}, NoCompression)

SpecPulse == PulseInit /\ [][PulseNext]_vars

\* SpecCfg: one thread; every compression name at construction and in the
\* metadata of add_channel, one channel name, no pulse_id override.
CfgInit ==
    /\ ChkInit
    /\ \E dhc \in CompressionNames, dc \in CompressionNames : SenderInit(dhc, dc, 0)

CfgNext ==
    SenderNext({1}, {1}, {"a"}, SendArgs({"a"}, {NoPulse}), Functions, MetadataArgs)

SpecCfg == CfgInit /\ [][CfgNext]_vars

\* SpecConc: the single-writer use of the Sender: thread 1 opens, closes
\* and sends while thread 2 registers channels; two channel names, a
\* Sender without compression starting at pulse 0; send is given at most
\* one positional value, no named values and no pulse_id override.
ConcInit == ChkInit /\ SenderInit(None, None, 0)

ConcArgs ==
    {a \in SendArgs(Names, {NoPulse}) : a.dict_names = <<>> /\ a.list_len <= 1}

ConcNext ==
    SenderNext({1}, {2}, Names, ConcArgs, {"function"}, NoCompression)

SpecConc == ConcInit /\ [][ConcNext]_vars

\* SpecHook: one thread and one channel name, as SpecSeq, and a thread that
\* can take a step eventually takes one.
HookInit == ChkInit /\ SenderInit(None, None, 0)

HookNext ==
    SenderNext({1}, {1}, {"a"}, SendArgs({"a"}, {NoPulse}), {"function"}, NoCompression)

SpecHook == HookInit /\ [][HookNext]_vars /\ WF_vars(HookNext)

\* The n_messages arguments of generate_stream.
GenCounts == {NoCount} \cup -1..MaxCounter

\* SpecGen: one thread and one channel name, as SpecHook without the
\* fairness, and generate_stream with its interrupt.
GenInit == ChkInit /\ SenderInit(None, None, 0)

GenNext ==
    \/ SenderNext({1}, {1}, {"a"}, SendArgs({"a"}, {NoPulse}), {"function"}, NoCompression)
    \/ \E n \in GenCounts : generate_stream(1, n)
    \/ generate_stream_sleep(1)
    \/ generate_stream_return(1)
    \/ interrupt(1)

SpecGen == GenInit /\ [][GenNext]_vars

(***************************************************************************)
(* Claims about send (ret[t] is set when a send of thread t has ended).    *)
(***************************************************************************)
Sent(t) == ret[t].outcome = "ok"

Failed(t) == ret[t].outcome = "error"

\* C1: every successful send hands exactly 2 + 2n frames to the transport
\* for the n registered channels: main header, data header, then a value
\* frame and a timestamp frame per channel in registry order; a channel
\* whose value is None contributes two empty frames.
C1_FramesPerSend ==
    \A t \in Threads : Sent(t) =>
        LET out == ret[t].out
            n == Len(channels)
        IN  /\ Len(out) = 2 + 2 * n
            /\ out[1].kind = "main"
            /\ out[2].kind = "data"
            /\ \A i \in 1..n :
                  /\ out[2 * i + 1].kind = "value"
                  /\ out[2 * i + 2].kind = "timestamp"
                  /\ out[2 * i + 1].ch = channels[i].metadata.name
                  /\ out[2 * i + 2].ch = channels[i].metadata.name
                  /\ out[2 * i + 1].empty = (out[2 * i + 1].value = None)
                  /\ out[2 * i + 2].empty = (out[2 * i + 1].value = None)

C1_Witness ==
    /\ Sent(1)
    /\ Len(channels) = 2
    /\ Len(ret[1].out) = 6
    /\ ret[1].out[3].empty /\ ret[1].out[4].empty
    /\ ~ret[1].out[5].empty /\ ~ret[1].out[6].empty

\* C2 (as stated): a successful send leaves the pulse counter at its value
\* before the call plus 1 whatever pulse_id override the call was given,
\* so that k successful sends after open lead from s to s + k.
C2_OverrideLeavesCounter ==
    \A t \in Threads : Sent(t) => pulse_id = ret[t].before.pulse_id + 1

\* C2 (amended): a successful send without override leaves the pulse
\* counter at its value before the call plus 1 (s + k after k such sends);
\* a successful send with override p embeds p in its main header and
\* leaves the pulse counter at p + 1.
C2_OverrideSetsCounter ==
    \A t \in Threads : Sent(t) =>
        LET embedded == IF ret[t].args.pulse_id # NoPulse
                        THEN ret[t].args.pulse_id
                        ELSE ret[t].before.pulse_id
        IN  /\ ret[t].out[1].main.pulse_id = embedded
            /\ pulse_id = embedded + 1

C2_Witness ==
    /\ Sent(1)
    /\ ret[1].args.pulse_id # NoPulse
    /\ ret[1].args.pulse_id # ret[1].before.pulse_id
    /\ ret[1].before.pulse_id # NoPulse

\* C3: a send on an opened Sender that fails leaves the pulse counter at
\* its value before the call, with or without a pulse_id override.
C3_FailedSendKeepsCounter ==
    \A t \in Threads :
        (Failed(t) /\ ret[t].before.pulse_id # NoPulse) =>
            pulse_id = ret[t].before.pulse_id

\* C4 (as stated): a send given positional values (and no named ones)
\* whose number differs from the number of registered channels fails
\* before any frame is handed to the transport and leaves registry and
\* headers unchanged, whatever check_data is.
C4_MismatchRefused ==
    \A t \in Threads :
        (/\ ret[t].outcome # None
         /\ ret[t].args.dict_names = <<>>
         /\ ret[t].args.list_len > 0
         /\ ret[t].args.list_len # Len(ret[t].before.channels)) =>
            /\ Failed(t)
            /\ ret[t].out = <<>>
            /\ channels = ret[t].before.channels
            /\ data_header = ret[t].before.data_header
            /\ data_header_bytes = ret[t].before.data_header_bytes
            /\ main_header = ret[t].before.main_header

\* C4 (amended): a send with check_data requested, given positional values
\* and no named values, whose number differs from the number of registered
\* channels fails before any frame is handed to the transport and leaves
\* registry and headers unchanged.
C4_CheckedMismatchRefused ==
    \A t \in Threads :
        (/\ ret[t].outcome # None
         /\ ret[t].args.check_data
         /\ ret[t].args.dict_names = <<>>
         /\ ret[t].args.list_len > 0
         /\ ret[t].args.list_len # Len(ret[t].before.channels)) =>
            /\ Failed(t)
            /\ ret[t].out = <<>>
            /\ channels = ret[t].before.channels
            /\ data_header = ret[t].before.data_header
            /\ data_header_bytes = ret[t].before.data_header_bytes
            /\ main_header = ret[t].before.main_header

C4_Witness ==
    /\ Failed(1)
    /\ stream = "connected"
    /\ status_stream_open
    /\ ret[1].args.check_data
    /\ ret[1].args.dict_names = <<>>
    /\ ret[1].args.list_len = 1
    /\ Len(channels) = 2

\* C5: no send call is reached with an unknown compression name in the
\* Sender or in the registry: every such name was refused when it was
\* configured.
C5_NoUnknownCompressionAtSend ==
    \A t \in Threads : th[t].pc \notin {"idle", "open_header", "open_status"} =>
        /\ data_header_compression \in compression_provider_mapping
        /\ data_compression \in compression_provider_mapping
        /\ \A i \in 1..Len(channels) :
              channels[i].metadata.compression \in compression_provider_mapping

\* C10: in every interleaving of add_channel, add_channel_from_value, open
\* and send, the channels listed in the data header frame of a message are
\* the channels whose value and timestamp frames follow it, in that order.
C10_MessageOfOneSnapshot ==
    \A t \in Threads : Sent(t) =>
        LET out == ret[t].out
            listed == out[2].bytes.json.channels
        IN  /\ Len(out) = 2 + 2 * Len(listed)
            /\ \A i \in 1..Len(listed) :
                  /\ out[2 * i + 1].ch = listed[i].name
                  /\ out[2 * i + 2].ch = listed[i].name

\* C11: every successful send closes its multipart unit: for every number
\* of channels n >= 0, every frame of the message but the last is sent
\* with the more-frames-follow flag and the last frame is sent without it.
C11_LastFrameClosesUnit ==
    \A t \in Threads : Sent(t) =>
        LET out == ret[t].out
        IN  /\ \A i \in 1..(Len(out) - 1) : out[i].more
            /\ ~out[Len(out)].more

\* C12: a send called while the Sender is not open (never opened, or
\* closed) hands no frame to the transport and leaves the pulse counter as
\* it was before the call.
C12_SendOnlyWhenOpen ==
    \A t \in Threads :
        (ret[t].outcome # None /\ ~status_stream_open) =>
            /\ ret[t].out = <<>>
            /\ pulse_id = ret[t].before.pulse_id

\* A thread is in an open call that found a stream disconnected by close.
Reopening(t) ==
    /\ th[t].pc \in {"open_header", "open_status"}
    /\ th[t].before.stream = "disconnected"

\* C13 (as stated): open called again after close keeps the channel
\* registry and the pulse counter: the counter is after the re-open what it
\* was before it.
C13_ReopenKeepsCounter ==
    [][\A t \in Threads : Reopening(t) =>
          /\ channels' = channels
          /\ pulse_id' = pulse_id]_vars

\* C13 (amended): open called again after close keeps the channel registry
\* and sets the pulse counter to start_pulse_id, as every open does.
C13_ReopenRestartsCounter ==
    [][\A t \in Threads : Reopening(t) =>
          /\ channels' = channels
          /\ IF th'[t].pc = "idle" THEN pulse_id' = start_pulse_id
                                   ELSE pulse_id' = pulse_id]_vars

C13_Witness ==
    /\ Reopening(1)
    /\ th[1].pc = "open_status"
    /\ channels # <<>>
    /\ pulse_id > start_pulse_id
    /\ th[1].before.pulse_id = pulse_id

\* C14: with one thread, whatever sequence of open, add_channel,
\* add_channel_from_value and send ran before, the data header bytes sent
\* in a message are those of the registry as the message finds it: its
\* channels with their current metadata, in registry order.
C14_HeaderNeverStale ==
    \A t \in Threads : Sent(t) =>
        ret[t].out[2].bytes = HeaderBytes(DataHeaderOf(channels))

\* C15: explicit values given to a send with check_data replace the
\* registered functions for that call only: after the call every channel
\* registered before it is still registered with the function it had, so
\* that a later send without values calls that function again.
C15_ExplicitValuesKeepFunctions ==
    \A t \in Threads :
        (/\ Sent(t)
         /\ ret[t].args.check_data
         /\ ret[t].args.list_len > 0 \/ ret[t].args.dict_names # <<>>) =>
            LET old == ret[t].before.channels
            IN  \A i \in 1..Len(old) :
                   /\ HasName(channels, old[i].metadata.name)
                   /\ channels[IndexOf(channels, old[i].metadata.name)].function =
                          old[i].function

\* C16: a send on an open Sender whose pre-send hook registers a channel
\* through add_channel terminates: the hook's add_channel call does not
\* wait for the registry lock forever.
C16_HookedSendTerminates ==
    \A t \in Threads :
        (th[t].pc = "hook_lock" /\ status_stream_open) ~> (th[t].pc = "idle")

\* A step in which the send call of thread t writes the pulse counter: the
\* override assignment when the call begins, or the increment.
SendWritesCounter(t) ==
    /\ pulse_id' # pulse_id
    /\ \/ th[t].pc = "idle" /\ th'[t].pc = "lock"
       \/ th[t].pc = "increment" /\ th'[t].pc = "idle"

\* C17: every write a send call makes to the pulse counter happens while
\* that call holds the registry lock.
C17_CounterWrittenUnderLock ==
    [][\A t \in Threads : SendWritesCounter(t) => channels_lock = t]_vars

\* C18: in every message sent, the hash in the main header frame is the
\* hash of the data header bytes sent as the second frame of that message;
\* the hash being a function of those bytes, the hashes of two messages
\* differ only if their data header bytes differ.
C18_HashOfSentDataHeader ==
    \A t \in Threads :
        (ret[t].outcome # None /\ Len(ret[t].out) >= 2) =>
            /\ ret[t].out[1].kind = "main"
            /\ ret[t].out[2].kind = "data"
            /\ ret[t].out[1].main.hash = md5(ret[t].out[2].bytes)

C18_Witness ==
    /\ Sent(1)
    /\ ret[1].out[2].bytes.json.channels # <<>>
    /\ ret[1].out[2].bytes # ret[1].before.data_header_bytes
    /\ ret[1].out[1].main.hash # ret[1].before.main_header.hash

\* C20: generate_stream called with n > 0 returns after exactly n messages
\* (it is the only way it returns), and an interrupt ends it as a clean
\* stop: when the interrupt has ended generate_stream the transport is
\* closed.
C20_StreamOfNThenCleanStop ==
    [][\A t \in Threads : (th[t].generating /\ ~th'[t].generating) =>
          /\ ret'[t].outcome = "returned" =>
                /\ th[t].n_arg > 0
                /\ pulse_id' = start_pulse_id + th[t].n_arg
          /\ ret'[t].outcome = "interrupted" => stream' = "disconnected"]_vars

\* The send call of thread t hands over the frame that closes the unit the
\* stream holds open: the timestamp frame of the last channel, which comes
\* with the value frame before it.
ClosesUnit(t) ==
    /\ th[t].pc = "loop"
    /\ th'[t].pc = "loop"
    /\ unit > 0
    /\ unit' = 0

\* C21: every multipart unit the transport gets closed is one complete
\* message: it holds the frames of the send that closes it and no frame a
\* failed send left behind, which makes 2 + 2n frames for n channels.
C21_ClosedUnitIsOneMessage ==
    [][\A t \in Threads : ClosesUnit(t) =>
          /\ unit = Len(th[t].out)
          /\ unit + 2 = 2 + 2 * Len(channels)]_vars

====
